---- MODULE Spec2Model ----
(***************************************************************************)
(* Model of BookService (book.service.ts) of the Bookmark server: the     *)
(* Book and BookCategory tables behind Prisma, the image directory on     *)
(* disk, and the service's operations.  Every store round trip (an        *)
(* awaited Prisma call) is one atomic step and may throw; createBook and  *)
(* findAllBooks take several.  Spec serves one request at a time;         *)
(* SpecCreate lets BookCategory requests of other clients run while       *)
(* createBook is suspended at an await.                                   *)
(***************************************************************************)
EXTENDS Integers, Sequences, FiniteSets, TLC

VARIABLES
    books,       \* the Book table: id -> row, for the rows that exist
    nextId,      \* ids are generated by the store and never reused
    categories,  \* the BookCategory table: id -> deleted_at, for the rows that exist
    files,       \* Books/Image on disk: file name -> bytes, for the files that exist
    call         \* the request under observation: its arguments, position and response

vars == <<books, nextId, categories, files, call>>

----------------------------------------------------------------------------
(* Bounds of the model *)

MaxBooks == 2        \* Book rows ever created
MaxPerPage == 2      \* largest perPage a caller passes

(* Values *)

NULL == "null"
Now == "now"                       \* new Date()
UNDEFINED == -1                    \* a let that was never assigned (no count is negative)
CatIds == {"c1", "c2"}
Titles == {"a", "b"}
DefaultPrice == 1
FileNames == {"f1"}
Bytes == {"x", "y"}
Filters == {"none", "name", "price", "category", "other"}
SortOrders == {"asc", "desc"}
Pages == 1 .. (MaxBooks + 1)
PerPages == 1 .. MaxPerPage
BookIds == 1 .. MaxBooks

NoRow == [id |-> 0]                \* findUnique found nothing (null)
NoImage == [name |-> NULL]         \* the request carries no file
Idle == [op |-> "none", pc |-> "idle"]
InFlight == call.pc \notin {"idle", "done"}

\* The response of a single-round-trip request: recorded when the observed
\* client made it, dropped when it belongs to another client running while
\* the observed request is suspended.  The observed client makes one request
\* at a time.
Observe(r) == IF InFlight THEN call ELSE r

----------------------------------------------------------------------------
(* The store's queries *)

Min(a, b) == IF a < b THEN a ELSE b

\* a / b rounded down instead of up
FloorDiv(a, b) == a \div b

\* Math.ceil(a / b), b >= 1
CeilDiv(a, b) == (a + b - 1) \div b

Active(bs) == {i \in DOMAIN bs : bs[i].deleted_at = NULL}

\* prisma.book.count({ where: { deleted_at: null } })
CountActive(bs) == Cardinality(Active(bs))

\* a lookup by id alone, deleted_at left out of the where
FindUniqueAnyRow(bs, id) == IF id \in DOMAIN bs THEN bs[id] ELSE NoRow

\* prisma.book.findUnique({ where: { id, deleted_at: null } })
FindUniqueActive(bs, id) == IF id \in Active(bs) THEN bs[id] ELSE NoRow

\* a where clause that never receives id_category
WhereClauseNoCategory(bs, categoryId) == Active(bs)

\* whereClause = { deleted_at: null }, plus id_category when categoryId != 'none'
WhereClause(bs, categoryId) ==
    {i \in Active(bs) : categoryId = "none" \/ bs[i].id_category = categoryId}

\* the switch on filter: the column to order by, "none" for undefined
OrderBy(filter) ==
    CASE filter = "name" -> "title"
      [] filter = "price" -> "final_price"
      [] filter = "category" -> "id_category"
      [] OTHER -> "none"

TitleRank == [t \in Titles |-> IF t = "a" THEN 1 ELSE 2]
CatRank == [c \in CatIds |-> IF c = "c1" THEN 1 ELSE 2]

SortKey(row, column) ==
    CASE column = "title" -> TitleRank[row.title]
      [] column = "final_price" -> row.final_price
      [] column = "id_category" -> CatRank[row.id_category]
      [] OTHER -> 0

InOrder(a, b, sortOrder) == IF sortOrder = "asc" THEN a <= b ELSE a >= b

\* Every order in which the store may hand back the rows `ids` under orderBy:
\* sorted on the column, rows with equal keys (and all rows when orderBy is
\* undefined) in any order.
Orderings(bs, ids, column, sortOrder) ==
    {s \in [1 .. Cardinality(ids) -> ids] :
        /\ \A i, j \in DOMAIN s : i # j => s[i] # s[j]
        /\ \A i, j \in DOMAIN s :
              i < j => InOrder(SortKey(bs[s[i]], column), SortKey(bs[s[j]], column), sortOrder)}

\* skip: offset, take: +perPage
SkipTake(s, offset, perPage) == SubSeq(s, offset + 1, Min(offset + perPage, Len(s)))

\* an offset that counts pages from 0
OffsetFromPage(page, perPage) == page * perPage

\* const offset = (page - 1) * perPage
Offset(page, perPage) == (page - 1) * perPage

\* The pages findMany may return for these arguments: sequences of rows.
FindManyPages(bs, page, perPage, filter, sortOrder, categoryId) ==
    {[k \in DOMAIN SkipTake(s, Offset(page, perPage), perPage) |->
          bs[SkipTake(s, Offset(page, perPage), perPage)[k]]] :
        s \in Orderings(bs, WhereClause(bs, categoryId), OrderBy(filter), sortOrder)}

----------------------------------------------------------------------------
\* A database in which both categories were created before the first request.
Init ==
    /\ books = <<>>
    /\ nextId = 1
    /\ categories = [c \in CatIds |-> NULL]
    /\ files = <<>>
    /\ call = Idle

----------------------------------------------------------------------------
(* Requests of one round trip *)

\* findBook(id)
FindBook(id) ==
    /\ call.pc # "done"
    /\ \E fail \in BOOLEAN :
        call' = Observe(
            IF fail
            THEN [op |-> "findBook", pc |-> "done", id |-> id, storeFailed |-> TRUE,
                  status |-> "Internal", value |-> NoRow]
            ELSE LET book == FindUniqueActive(books, id) IN
                 IF book = NoRow
                 THEN [op |-> "findBook", pc |-> "done", id |-> id, storeFailed |-> FALSE,
                       status |-> "NotFound", value |-> NoRow]
                 ELSE [op |-> "findBook", pc |-> "done", id |-> id, storeFailed |-> FALSE,
                       status |-> "ok", value |-> book])
    /\ UNCHANGED <<books, nextId, categories, files>>

\* The rows after prisma.book.update({ where: { id }, data }): the store
\* rejects a missing row and a category that does not exist.
UpdateRejected(id, field, value) ==
    \/ id \notin DOMAIN books
    \/ field = "id_category" /\ value \notin DOMAIN categories

\* updateBook(id, bookData), bookData patching one column
UpdateBook(id, field, value) ==
    /\ call.pc # "done"
    /\ \E fail \in BOOLEAN :
        IF fail \/ UpdateRejected(id, field, value)
        THEN /\ call' = Observe([op |-> "update", pc |-> "done", id |-> id, storeFailed |-> TRUE,
                                 status |-> "Internal", value |-> NoRow])
             /\ books' = books
        ELSE /\ books' = [books EXCEPT ![id][field] = value]
             /\ call' = Observe([op |-> "update", pc |-> "done", id |-> id, storeFailed |-> FALSE,
                                 status |-> "ok", value |-> books'[id]])
    /\ UNCHANGED <<nextId, categories, files>>

\* a soft delete that writes deleted_at: null
SoftDeleteRowNull(bs, id) == [bs EXCEPT ![id].deleted_at = NULL]

\* update({ where: { id }, data: { deleted_at: new Date() } })
SoftDeleteRow(bs, id) == [bs EXCEPT ![id].deleted_at = Now]

\* delete({ where: { id } })
DeleteRow(bs, id) == [i \in DOMAIN bs \ {id} |-> bs[i]]

\* softDeleteBook(id)
SoftDeleteBook(id) ==
    /\ call.pc # "done"
    /\ call.pc # "done"
    /\ \E fail \in BOOLEAN :
        IF fail \/ id \notin DOMAIN books
        THEN /\ call' = Observe([op |-> "softDelete", pc |-> "done", id |-> id, storeFailed |-> TRUE,
                                 status |-> "Internal", value |-> NoRow])
             /\ books' = books
        ELSE /\ books' = SoftDeleteRow(books, id)
             /\ call' = Observe([op |-> "softDelete", pc |-> "done", id |-> id, storeFailed |-> FALSE,
                                 status |-> "ok", value |-> books'[id]])
    /\ UNCHANGED <<nextId, categories, files>>

\* deleteBook(id)
DeleteBook(id) ==
    /\ \E fail \in BOOLEAN :
        IF fail \/ id \notin DOMAIN books
        THEN /\ call' = Observe([op |-> "delete", pc |-> "done", id |-> id, storeFailed |-> TRUE,
                                 status |-> "Internal", value |-> NoRow])
             /\ books' = books
        ELSE /\ books' = DeleteRow(books, id)
             /\ call' = Observe([op |-> "delete", pc |-> "done", id |-> id, storeFailed |-> FALSE,
                                 status |-> "ok", value |-> books[id]])
    /\ UNCHANGED <<nextId, categories, files>>

\* countBooks()
CountBooks ==
    /\ call.pc # "done"
    /\ \E fail \in BOOLEAN :
        call' = Observe(
            IF fail
            THEN [op |-> "count", pc |-> "done", storeFailed |-> TRUE,
                  status |-> "Internal", value |-> UNDEFINED]
            ELSE [op |-> "count", pc |-> "done", storeFailed |-> FALSE,
                  status |-> "ok", value |-> CountActive(books)])
    /\ UNCHANGED <<books, nextId, categories, files>>

----------------------------------------------------------------------------
(* findAllBooks: findMany, then countBooks *)

\* findAllBooks(page, perPage, filter, sortOrder, categoryId) up to the
\* first await and the check of its result
FindAllBooksFindMany(page, perPage, filter, sortOrder, categoryId) ==
    /\ call = Idle
    /\ \E fail \in BOOLEAN :
        IF fail
        THEN call' = [op |-> "list", pc |-> "done", page |-> page, perPage |-> perPage,
                      categoryId |-> categoryId, status |-> "Internal", storeFailed |-> TRUE,
                      at |-> "findMany", items |-> <<>>, totalBooks |-> UNDEFINED, totalPages |-> UNDEFINED]
        ELSE \E found \in FindManyPages(books, page, perPage, filter, sortOrder, categoryId) :
            IF Len(found) = 0
            THEN call' = [op |-> "list", pc |-> "done", page |-> page, perPage |-> perPage,
                          categoryId |-> categoryId, status |-> "NotFound",
                          storeFailed |-> FALSE, at |-> "findMany", items |-> <<>>,
                          totalBooks |-> UNDEFINED, totalPages |-> UNDEFINED]
            ELSE call' = [op |-> "list", pc |-> "count", page |-> page, perPage |-> perPage,
                          categoryId |-> categoryId, items |-> found]
    /\ UNCHANGED <<books, nextId, categories, files>>

\* What try { count } catch { throw Internal } finally { return {...} } hands
\* to the caller: the return in finally replaces the pending throw.
TryCountFinally(thrown, totalBooks, totalPages, items) ==
    [status |-> "ok", totalBooks |-> totalBooks, totalPages |-> totalPages, items |-> items]

\* totalPages = Math.ceil(totalBooks / perPage)
TotalPages(totalBooks, perPage) == CeilDiv(totalBooks, perPage)

\* the counting step of findAllBooks and its return
FindAllBooksCount ==
    /\ call.op = "list" /\ call.pc = "count"
    /\ \E fail \in BOOLEAN :
        LET totalBooks == IF fail THEN UNDEFINED ELSE CountActive(books)
            totalPages == IF fail THEN UNDEFINED ELSE TotalPages(totalBooks, call.perPage)
            out == TryCountFinally(fail, totalBooks, totalPages, call.items)
        IN call' = [op |-> "list", pc |-> "done", page |-> call.page,
                    perPage |-> call.perPage, categoryId |-> call.categoryId,
                    status |-> out.status, storeFailed |-> fail, at |-> "count",
                    items |-> out.items,
                    totalBooks |-> out.totalBooks, totalPages |-> out.totalPages]
    /\ UNCHANGED <<books, nextId, categories, files>>

----------------------------------------------------------------------------
(* createBook: image write, category checks, insert *)

CreateDone(status, storeFailed, at, value) ==
    [op |-> "create", pc |-> "done", status |-> status, storeFailed |-> storeFailed,
     at |-> at, categoryId |-> call.categoryId, subCategoryId |-> call.subCategoryId,
     image |-> call.image, before |-> call.before, value |-> value]

\* createBook(bookData, bookImage) up to the first await: the image, when
\* there is one, is written before anything is checked.  `before` keeps the
\* rows and files as the request found them, for comparison when it ends.
CreateBookStart(title, categoryId, subCategoryId, image) ==
    /\ call = Idle
    /\ nextId <= MaxBooks
    /\ IF image = NoImage
       THEN /\ files' = files
            /\ call' = [op |-> "create", pc |-> "checkMain", title |-> title,
                        categoryId |-> categoryId, subCategoryId |-> subCategoryId,
                        image |-> image, before |-> [books |-> books, files |-> files]]
       ELSE \E fsFail \in BOOLEAN :
            IF fsFail
            THEN /\ files' = files
                 /\ call' = [op |-> "create", pc |-> "done", status |-> "FsError",
                             storeFailed |-> FALSE, at |-> "write",
                             categoryId |-> categoryId, subCategoryId |-> subCategoryId,
                             image |-> image,
                             before |-> [books |-> books, files |-> files],
                             value |-> NoRow]
            ELSE /\ files' = [n \in DOMAIN files \cup {image.name} |->
                                IF n = image.name THEN image.bytes ELSE files[n]]
                 /\ call' = [op |-> "create", pc |-> "checkMain", title |-> title,
                             categoryId |-> categoryId, subCategoryId |-> subCategoryId,
                             image |-> image,
                             before |-> [books |-> books, files |-> files]]
    /\ UNCHANGED <<books, nextId, categories>>

\* bookCategory.findUnique({ where: { id: categoryId } }) and its check
CreateBookCheckMain ==
    /\ call.op = "create" /\ call.pc = "checkMain"
    /\ \E fail \in BOOLEAN :
        call' = IF fail THEN CreateDone("Internal", TRUE, "checkMain", NoRow)
                ELSE IF call.categoryId \notin DOMAIN categories
                THEN CreateDone("NotFound", FALSE, "checkMain", NoRow)
                ELSE [call EXCEPT !.pc = IF call.subCategoryId # NULL
                                         THEN "checkSub" ELSE "insert"]
    /\ UNCHANGED <<books, nextId, categories, files>>

\* bookCategory.findUnique({ where: { id: subCategoryId } }) and its check
CreateBookCheckSub ==
    /\ call.op = "create" /\ call.pc = "checkSub"
    /\ \E fail \in BOOLEAN :
        call' = IF fail THEN CreateDone("Internal", TRUE, "checkSub", NoRow)
                ELSE IF call.subCategoryId \notin DOMAIN categories
                THEN CreateDone("NotFound", FALSE, "checkSub", NoRow)
                ELSE [call EXCEPT !.pc = "insert"]
    /\ UNCHANGED <<books, nextId, categories, files>>

\* an insert that writes the category ids without connecting them
ConnectUnchecked(categoryId, subCategoryId) == FALSE

\* mainCategory: { connect: { id } }, subCategory: { connect: { id } }: the
\* store refuses to connect a row that does not exist
ConnectRejected(categoryId, subCategoryId) ==
    \/ categoryId \notin DOMAIN categories
    \/ subCategoryId # NULL /\ subCategoryId \notin DOMAIN categories

\* prisma.book.create({ data: ... }) and the return
CreateBookInsert ==
    /\ call.op = "create" /\ call.pc = "insert"
    /\ \E fail \in BOOLEAN :
        IF fail \/ ConnectRejected(call.categoryId, call.subCategoryId)
        THEN /\ call' = CreateDone("Internal", TRUE, "insert", NoRow)
             /\ UNCHANGED <<books, nextId>>
        ELSE LET row == [id |-> nextId, title |-> call.title, final_price |-> DefaultPrice,
                         id_category |-> call.categoryId,
                         id_sub_category |-> call.subCategoryId,
                         image |-> call.image.name, deleted_at |-> NULL]
             IN /\ books' = [i \in DOMAIN books \cup {nextId} |->
                                IF i = nextId THEN row ELSE books[i]]
                /\ nextId' = nextId + 1
                /\ call' = CreateDone("ok", FALSE, "insert", row)
    /\ UNCHANGED <<categories, files>>

----------------------------------------------------------------------------
(* BookCategory requests that reach the tables createBook reads *)

\* softDeleteBookCategory(id)
SoftDeleteBookCategory(id) ==
    /\ call.pc # "done"
    /\ call.pc # "done"
    /\ \E fail \in BOOLEAN :
        IF fail \/ id \notin DOMAIN categories
        THEN /\ call' = Observe([op |-> "softDeleteCategory", pc |-> "done", id |-> id,
                                 storeFailed |-> TRUE, status |-> "Internal"])
             /\ categories' = categories
        ELSE /\ categories' = [categories EXCEPT ![id] = Now]
             /\ call' = Observe([op |-> "softDeleteCategory", pc |-> "done", id |-> id,
                                 storeFailed |-> FALSE, status |-> "ok"])
    /\ UNCHANGED <<books, nextId, files>>

\* deleteBookCategory(id): the row is erased whether or not books reference it
DeleteBookCategory(id) ==
    /\ \E fail \in BOOLEAN :
        IF fail \/ id \notin DOMAIN categories
        THEN /\ call' = Observe([op |-> "deleteCategory", pc |-> "done", id |-> id,
                                 storeFailed |-> TRUE, status |-> "Internal"])
             /\ categories' = categories
        ELSE /\ categories' = [c \in DOMAIN categories \ {id} |-> categories[c]]
             /\ call' = Observe([op |-> "deleteCategory", pc |-> "done", id |-> id,
                                 storeFailed |-> FALSE, status |-> "ok"])
    /\ UNCHANGED <<books, nextId, files>>

\* The observed client takes the response and is free for its next request.
Return ==
    /\ call.pc = "done"
    /\ call' = Idle
    /\ UNCHANGED <<books, nextId, categories, files>>

----------------------------------------------------------------------------
(* The catalogue, one request at a time: books are created, patched, deleted,
   looked up and listed; the categories stay as seeded. *)

Next ==
    \/ call = Idle /\ \E id \in BookIds : FindBook(id)
    \/ call = Idle /\ \E id \in BookIds, v \in Titles : UpdateBook(id, "title", v)
    \/ call = Idle /\ \E id \in BookIds, v \in CatIds : UpdateBook(id, "id_category", v)
    \/ call = Idle /\ \E id \in BookIds : SoftDeleteBook(id)
    \/ call = Idle /\ \E id \in BookIds : DeleteBook(id)
    \/ call = Idle /\ CountBooks
    \/ \E page \in Pages, perPage \in PerPages, filter \in Filters,
          sortOrder \in SortOrders, categoryId \in CatIds \cup {"none"} :
            FindAllBooksFindMany(page, perPage, filter, sortOrder, categoryId)
    \/ FindAllBooksCount
    \/ \E title \in Titles, categoryId \in CatIds :
            CreateBookStart(title, categoryId, NULL, NoImage)
    \/ CreateBookCheckMain
    \/ CreateBookInsert
    \/ Return

Spec == Init /\ [][Next]_vars

(* Creation against categories that other requests soft-delete and erase. *)

Images == {NoImage} \cup {[name |-> n, bytes |-> b] : n \in FileNames, b \in Bytes}

NextCreate ==
    \/ \E categoryId \in CatIds, subCategoryId \in CatIds \cup {NULL}, image \in Images :
            CreateBookStart("a", categoryId, subCategoryId, image)
    \/ CreateBookCheckMain
    \/ CreateBookCheckSub
    \/ CreateBookInsert
    \/ \E id \in CatIds : SoftDeleteBookCategory(id)
    \/ \E id \in CatIds : DeleteBookCategory(id)
    \/ Return

SpecCreate == Init /\ [][NextCreate]_vars

----------------------------------------------------------------------------
(* Properties *)

CategoryArgs == CatIds \cup {"none"}
IsListDone == call.op = "list" /\ call.pc = "done"
IsCreateDone == call.op = "create" /\ call.pc = "done"

\* The ids on every page the store may return for these arguments.
IdsListed(bs, page, perPage, categoryId) ==
    UNION {{found[k].id : k \in DOMAIN found} :
            found \in UNION {FindManyPages(bs, page, perPage, filter, sortOrder, categoryId) :
                               filter \in Filters, sortOrder \in SortOrders}}

\* findMany returns an empty page whatever the sort: findAllBooks throws NotFound
ListNotFound(bs, page, perPage, categoryId) ==
    \A filter \in Filters, sortOrder \in SortOrders :
        \A found \in FindManyPages(bs, page, perPage, filter, sortOrder, categoryId) :
            Len(found) = 0

\* findMany returns a page with rows whatever the sort: findAllBooks goes on to count
ListNonEmpty(bs, page, perPage, categoryId) ==
    \A filter \in Filters, sortOrder \in SortOrders :
        \A found \in FindManyPages(bs, page, perPage, filter, sortOrder, categoryId) :
            Len(found) > 0

\* C1: unless the store fails, findBook returns the row of an id whose row
\* has deleted_at null, and fails with NotFound (no result, never Internal)
\* for an id that is soft-deleted or matches no row.
C1_FindBookContract ==
    (call.op = "findBook" /\ ~call.storeFailed) =>
        IF call.id \in DOMAIN books /\ books[call.id].deleted_at = NULL
        THEN call.status = "ok" /\ call.value = books[call.id]
        ELSE call.status = "NotFound" /\ call.value = NoRow

\* C1 witness: findBook answered NotFound for a row that is still stored,
\* soft-deleted.
C1_Witness ==
    /\ call.op = "findBook" /\ call.status = "NotFound"
    /\ call.id \in DOMAIN books
    /\ books[call.id].deleted_at # NULL

\* C2 as stated: when findMany returned rows and the count then failed,
\* findAllBooks fails with Internal and hands no result to the caller.
C2_CountFailureIsInternal ==
    (IsListDone /\ call.at = "count" /\ call.storeFailed) => call.status = "Internal"

\* C3: no item of a listing is soft-deleted, and with a categoryId other
\* than 'none' every item has that main category; with 'none' the items are
\* the active rows of any category.
C3_ListFilters ==
    (call.op = "list" /\ call.pc \in {"count", "done"}) =>
        \A k \in DOMAIN call.items :
            /\ call.items[k].deleted_at = NULL
            /\ call.categoryId # "none" => call.items[k].id_category = call.categoryId

\* C3 witness: a listing restricted to c1 returned rows while the table also
\* holds a soft-deleted row of c1 or an active row of another category.
C3_Witness ==
    /\ IsListDone /\ call.status = "ok" /\ call.categoryId = "c1"
    /\ \E i \in DOMAIN books :
          \/ books[i].deleted_at # NULL /\ books[i].id_category = "c1"
          \/ books[i].deleted_at = NULL /\ books[i].id_category # "c1"

\* C4: unless the store fails, findAllBooks fails with NotFound exactly when
\* skip = (page - 1) * perPage reaches past the filtered active rows, page 1
\* of an empty catalogue included; a result never carries an empty page.
C4_NotFoundIffEmptyPage ==
    call.op = "list" =>
        LET matching == Cardinality({i \in DOMAIN books :
                            /\ books[i].deleted_at = NULL
                            /\ call.categoryId \in {"none", books[i].id_category}})
            empty == (call.page - 1) * call.perPage >= matching
        IN /\ call.pc = "count" => ~empty
           /\ (call.pc = "done" /\ ~call.storeFailed) => (call.status = "NotFound" <=> empty)
           /\ (call.pc = "done" /\ call.status = "ok") => Len(call.items) > 0

\* C4 witness: NotFound for a page past the last one of a listing that has rows.
C4_Witness ==
    /\ IsListDone /\ call.status = "NotFound" /\ call.page > 1
    /\ WhereClause(books, call.categoryId) # {}

\* C5 as stated: a findAllBooks call that returns has at most perPage items
\* and totalPages = ceil(totalCount / perPage), totalCount being the rows
\* with deleted_at null, whatever their category.
C5_PageSizeAndTotalPages ==
    (IsListDone /\ call.status = "ok") =>
        LET total == Cardinality({i \in DOMAIN books : books[i].deleted_at = NULL}) IN
        /\ Len(call.items) <= call.perPage
        /\ call.totalBooks = total
        /\ call.totalPages * call.perPage >= total
        /\ (call.totalPages - 1) * call.perPage < total

\* C6 as stated: createBook fails with NotFound when the main category, or a
\* supplied sub category, matches no row; no row is then inserted; every
\* other failure of createBook is Internal.
C6_CreateErrors ==
    IsCreateDone =>
        /\ (call.at = "checkMain" /\ ~call.storeFailed) =>
              (call.status = "NotFound" /\ call.categoryId \notin DOMAIN categories)
        /\ (call.at = "checkSub" /\ ~call.storeFailed) =>
              (call.status = "NotFound" /\ call.subCategoryId \notin DOMAIN categories)
        /\ call.status = "NotFound" =>
              (call.at \in {"checkMain", "checkSub"} /\ books = call.before.books)
        /\ call.status \in {"ok", "NotFound", "Internal"}

\* C7: a soft delete of an active book leaves its row stored with deleted_at
\* set, makes findBook miss it, keeps it off every listing and lowers the
\* count by one; a hard delete leaves no row with that id.
C7_SoftVersusHardDelete ==
    [][/\ (/\ call = Idle /\ call'.op = "softDelete" /\ call'.status = "ok"
           /\ books[call'.id].deleted_at = NULL) =>
              /\ call'.id \in DOMAIN books'
              /\ books'[call'.id].deleted_at # NULL
              /\ FindUniqueActive(books', call'.id) = NoRow
              /\ \A page \in Pages, perPage \in PerPages, categoryId \in CategoryArgs :
                    call'.id \notin IdsListed(books', page, perPage, categoryId)
              /\ CountActive(books') = CountActive(books) - 1
       /\ (call = Idle /\ call'.op = "delete" /\ call'.status = "ok") =>
              call'.id \notin DOMAIN books'
      ]_vars

\* C7 witness: a soft delete succeeded and the table holds the soft-deleted
\* row beside an active one.
C7_Witness ==
    /\ call.op = "softDelete" /\ call.status = "ok"
    /\ call.id \in DOMAIN books
    /\ books[call.id].deleted_at # NULL
    /\ Active(books) # {}

C9_PagesMatchTotalPages ==
    (IsListDone /\ call.status = "ok" /\ ~call.storeFailed) =>
        /\ \A p \in 1 .. call.totalPages :
              ListNonEmpty(books, p, call.perPage, call.categoryId)
        /\ ListNotFound(books, call.totalPages + 1, call.perPage, call.categoryId)

\* C9 amended: unless the store fails, page T + 1 fails with NotFound for
\* every categoryId, and every page 1..T has rows when categoryId is 'none'.
C9_PagesMatchTotalPagesUnfiltered ==
    (IsListDone /\ call.status = "ok" /\ ~call.storeFailed) =>
        /\ call.categoryId = "none" =>
              \A p \in 1 .. call.totalPages :
                  ListNonEmpty(books, p, call.perPage, call.categoryId)
        /\ ListNotFound(books, call.totalPages + 1, call.perPage, call.categoryId)

\* C9 witness: an unfiltered listing reported two pages or more.
C9_Witness ==
    /\ IsListDone /\ call.status = "ok" /\ ~call.storeFailed
    /\ call.categoryId = "none" /\ call.totalPages >= 2

\* C10 as stated: a createBook that fails with NotFound or Internal leaves
\* the Book rows and the image files as it found them.
C10_FailedCreateLeavesNoTrace ==
    (IsCreateDone /\ call.status \in {"NotFound", "Internal"}) =>
        /\ books = call.before.books
        /\ files = call.before.files
====
